---- MODULE Spec2Model ----
(***************************************************************************)
(* InfArray<T,ArrSize> (itensor/util/infarray.h): a sequence container     *)
(* holding up to ArrSize elements in an inline std::array (arr_) and       *)
(* migrating to a std::vector (vec_) above that; data_ is the raw pointer  *)
(* to the active storage.                                                  *)
(*                                                                         *)
(* Memory model.  A pointer is a record: nullptr, the first slot of        *)
(* container o's arr_ (k = "arr"), the first slot of the heap block that   *)
(* container o's vec_ owns now (k = "vec"), or a pointer into a block that *)
(* has been freed (k = "dangling").  When a vector reallocates or gives    *)
(* its block up, every pointer into the old block dangles; when vectors    *)
(* exchange or hand over blocks, the pointers into them follow the block.  *)
(* A read through a pointer outside the extent of live storage is          *)
(* undefined: it may yield any value (Reads).  A write outside live        *)
(* storage, or a copy from outside it, sets ub, and nothing is said of the *)
(* program after that.  Indices are 1-based: C++ index i is i+1 here.      *)
(***************************************************************************)
EXTENDS Integers, Sequences, FiniteSets

\* template parameter ArrSize of the instantiation that is modelled
ArrSize == 2
\* sizes run up to ArrSize + MaxExtra
MaxExtra == 2
\* element values are 0..MaxVal; 0 is the value-initialized T()
MaxVal == 1

MaxSize == ArrSize + MaxExtra
Values == 0..MaxVal
Sizes == 0..MaxSize
Cont == {1, 2}

\* obj: the containers; ub: undefined behaviour has happened; last: the last
\* operation; pushed: the push_back history of each container; out: what the
\* last operation reported and returned; DEBUG: whether the build defines DEBUG
VARIABLES obj, ub, last, pushed, out, DEBUG

vars == <<obj, ub, last, pushed, out, DEBUG>>

----------------------------------------------------------------------------
(* pointers *)

NullPtr == [k |-> "null", o |-> 0]
Dangling == [k |-> "dangling", o |-> 0]
ArrPtr(o) == [k |-> "arr", o |-> o]
VecPtr(o) == [k |-> "vec", o |-> o]

\* number of elements of live storage that pointer p designates
Extent(O, p) ==
    IF p.k = "arr" THEN ArrSize
    ELSE IF p.k = "vec" THEN Len(O[p.o].vec_)
    ELSE 0

Cell(O, p, i) == IF p.k = "arr" THEN O[p.o].arr_[i] ELSE O[p.o].vec_[i]

\* the values data_[i-1] may yield: one value inside live storage, any outside
ReadsIn(O, c, i) ==
    IF i <= Extent(O, O[c].data_) THEN {Cell(O, O[c].data_, i)} ELSE Values

Reads(c, i) == ReadsIn(obj, c, i)

\* the object map after writing v at the indices I through pointer p
Poke(O, p, I, v) ==
    IF p.k = "arr"
    THEN [O EXCEPT ![p.o].arr_ = [i \in 1..ArrSize |-> IF i \in I THEN v ELSE @[i]]]
    ELSE [O EXCEPT ![p.o].vec_ = [i \in 1..Len(@) |-> IF i \in I THEN v ELSE @[i]]]

PokeOk(O, p, I) == \A i \in I : i <= Extent(O, p)

----------------------------------------------------------------------------
(* std::vector *)

\* the block of c's vec_ is freed: the pointers into it dangle
Invalidate(O, c) ==
    [x \in Cont |-> IF O[x].data_ = VecPtr(c) THEN [O[x] EXCEPT !.data_ = Dangling] ELSE O[x]]

\* c's vec_ grew past its capacity (mv) or not: a vector that grows to n
\* elements may reallocate, one that does not grow keeps its block
Grown(O, c, mv) == IF mv THEN Invalidate(O, c) ELSE O

MoveChoices(s, n) == IF n > Len(s.vec_) THEN BOOLEAN ELSE {FALSE}

\* vec_.resize(n) that value-initializes every element
VecResizeFresh(v, n) == [i \in 1..n |-> 0]

\* contents after vec_.resize(n): common prefix kept, new elements T()
VecResize(v, n) == [i \in 1..n |-> IF i <= Len(v) THEN v[i] ELSE 0]

----------------------------------------------------------------------------
(* InfArray operations on one container record s of container self *)

\* the members before a constructor's body: data_ = nullptr, size_ = 0, an
\* empty vec_, arr_ as the storage holds it
Blank(s) == [s EXCEPT !.alive = TRUE, !.data_ = NullPtr, !.size_ = 0, !.vec_ = <<>>]

\* the std::copy of resize(new_size) through MAKE_SAFE_PTR: whether it runs,
\* how many elements it copies, the length declared for the destination and
\* the number of elements the source holds
MigrationCopy(s, new_size) ==
    IF new_size > ArrSize
    THEN [copies |-> s.size_ <= ArrSize, count |-> s.size_,
          dst |-> new_size, src |-> ArrSize]
    ELSE [copies |-> s.size_ > ArrSize, count |-> new_size,
          dst |-> ArrSize, src |-> Len(s.vec_)]

\* the bounds-checked pointer reports a violation when the copy writes past
\* the length it was declared with
SafePtrViolation(count, len) == count > len

\* resize copies new_size elements out of a vec_ that holds fewer
ResizeUB(s, new_size) ==
    new_size <= ArrSize /\ s.size_ > ArrSize /\ new_size > Len(s.vec_)

\* resize whose inline branch leaves data_ where it was
ResizeRecStays(s, self, new_size) ==
    IF new_size > ArrSize
    THEN LET v1 == VecResize(s.vec_, new_size)
             v2 == IF s.size_ <= ArrSize
                   THEN [i \in 1..new_size |-> IF i <= s.size_ THEN s.arr_[i] ELSE v1[i]]
                   ELSE v1
         IN  [s EXCEPT !.vec_ = v2, !.data_ = VecPtr(self), !.size_ = new_size]
    ELSE LET a1 == IF s.size_ > ArrSize /\ ~ResizeUB(s, new_size)
                   THEN [i \in 1..ArrSize |-> IF i <= new_size THEN s.vec_[i] ELSE s.arr_[i]]
                   ELSE s.arr_
         IN  [s EXCEPT !.arr_ = a1, !.vec_ = <<>>, !.size_ = new_size]

ResizeRec(s, self, new_size) ==
    IF new_size > ArrSize
    THEN LET v1 == VecResize(s.vec_, new_size)
             v2 == IF s.size_ <= ArrSize
                   THEN [i \in 1..new_size |-> IF i <= s.size_ THEN s.arr_[i] ELSE v1[i]]
                   ELSE v1
         IN  [s EXCEPT !.vec_ = v2, !.data_ = VecPtr(self), !.size_ = new_size]
    ELSE LET a1 == IF s.size_ > ArrSize /\ ~ResizeUB(s, new_size)
                   THEN [i \in 1..ArrSize |-> IF i <= new_size THEN s.vec_[i] ELSE s.arr_[i]]
                   ELSE s.arr_
         IN  [s EXCEPT !.arr_ = a1, !.vec_ = <<>>, !.data_ = ArrPtr(self),
                       !.size_ = new_size]

\* the vector length resize(new_size) asks for
ResizeVecLen(new_size) == IF new_size > ArrSize THEN new_size ELSE 0

ResizeMap(O, c, new_size, mv) ==
    LET O1 == Grown(O, c, mv) IN [O1 EXCEPT ![c] = ResizeRec(O1[c], c, new_size)]

SizedRec(s, self, size) ==
    IF size < ArrSize
    THEN [Blank(s) EXCEPT !.data_ = ArrPtr(self), !.size_ = size]
    ELSE LET t == [Blank(s) EXCEPT !.vec_ = VecResize(<<>>, size)]
         IN  [t EXCEPT !.data_ = IF size = 0 THEN NullPtr ELSE VecPtr(self),
                       !.size_ = Len(t.vec_)]

\* clear() that also value-initializes the slots of arr_
ClearRecWipes(s, self) ==
    [s EXCEPT !.data_ = ArrPtr(self), !.size_ = 0, !.vec_ = <<>>,
              !.arr_ = [i \in 1..ArrSize |-> 0]]

\* clear() that leaves size_ as it is
ClearRecKeepsSize(s, self) == [s EXCEPT !.data_ = ArrPtr(self), !.vec_ = <<>>]

\* clear() that leaves vec_ as it is
ClearRecKeepsVec(s, self) == [s EXCEPT !.data_ = ArrPtr(self), !.size_ = 0]

ClearRec(s, self) == [s EXCEPT !.data_ = ArrPtr(self), !.size_ = 0, !.vec_ = <<>>]

\* a fill that stops one element before end()
FillInButLast(O, c, val) == Poke(O, O[c].data_, 1..(O[c].size_ - 1), val)

\* fill(val) in the object map O: std::fill(begin(), end(), val)
FillIn(O, c, val) == Poke(O, O[c].data_, 1..O[c].size_, val)

----------------------------------------------------------------------------
(* state *)

\* storage of a container not yet constructed: arr_ holds indeterminate values
Raw(a) == [alive |-> FALSE, data_ |-> NullPtr, size_ |-> 0, arr_ |-> a, vec_ |-> <<>>]

NoOp == [op |-> "none", c |-> 0, osize |-> 0, again |-> FALSE]

NoHistory == [ok |-> FALSE, vals |-> <<>>]

\* no element returned
None == -1

\* an operation that reported no error and returned no element
NoOut == [errs |-> 0, val |-> None, arg |-> 0]

\* one container; the second is never constructed
Init ==
    /\ \E a \in [1..ArrSize -> Values] :
          obj = [c \in Cont |-> IF c = 1 THEN Raw(a) ELSE Raw([i \in 1..ArrSize |-> 0])]
    /\ ub = FALSE
    /\ last = NoOp
    /\ pushed = [c \in Cont |-> NoHistory]
    /\ out = NoOut
    /\ DEBUG \in BOOLEAN

\* two containers; the indeterminate slots of one arr_ hold the same value
InitPair ==
    /\ \E j1 \in Values, j2 \in Values :
          obj = [c \in Cont |-> Raw([i \in 1..ArrSize |-> IF c = 1 THEN j1 ELSE j2])]
    /\ ub = FALSE
    /\ last = NoOp
    /\ pushed = [c \in Cont |-> NoHistory]
    /\ out = NoOut
    /\ DEBUG = FALSE

\* bookkeeping of a step (after obj' is set): the operation, its container, the
\* size before it, whether it is a resize or a swap that follows the same
\* operation on the same container; pushed[c] is the sequence pushed onto c since its empty
\* construction, as long as nothing but push_back has touched c
Track(op, c, hist) ==
    /\ last' = [op |-> op, c |-> c, osize |-> obj[c].size_,
                again |-> (op \in {"resize", "swap"} /\ last.op = op /\ last.c = c)]
    /\ pushed' = [x \in Cont |-> IF x = c THEN hist
                                 ELSE IF obj'[x] = obj[x] THEN pushed[x]
                                 ELSE NoHistory]
    /\ UNCHANGED DEBUG

\* the history of a container after resize: no longer built by push_back alone;
\* vals keeps what had been pushed onto it when resize was called
Resized(h) == IF h.ok THEN [ok |-> FALSE, vals |-> h.vals] ELSE NoHistory

\* a step of an operation that returns nothing
Note(op, c, hist) == Track(op, c, hist) /\ out' = NoOut

Set(c, s) == obj' = [obj EXCEPT ![c] = s]

----------------------------------------------------------------------------
(* constructors *)

CtorEmpty(c) ==
    /\ ~ub /\ ~obj[c].alive
    /\ Set(c, [Blank(obj[c]) EXCEPT !.data_ = ArrPtr(c)])
    /\ Note("ctor", c, [ok |-> TRUE, vals |-> <<>>])
    /\ UNCHANGED ub

CtorSized(c, size) ==
    /\ ~ub /\ ~obj[c].alive
    /\ Set(c, SizedRec(obj[c], c, size))
    /\ Note("ctor_sized", c, NoHistory)
    /\ UNCHANGED ub

CtorFill(c, size, value) ==
    /\ ~ub /\ ~obj[c].alive
    /\ obj' = FillIn([obj EXCEPT ![c] = SizedRec(obj[c], c, size)], c, value)
    /\ Note("ctor_fill", c, NoHistory)
    /\ UNCHANGED ub

CtorList(c, init) ==
    /\ ~ub /\ ~obj[c].alive
    /\ LET s == ResizeRec(Blank(obj[c]), c, Len(init))
       IN  Set(c, IF s.data_.k = "arr"
                  THEN [s EXCEPT !.arr_ = [i \in 1..ArrSize |-> IF i <= Len(init) THEN init[i] ELSE @[i]]]
                  ELSE [s EXCEPT !.vec_ = [i \in 1..Len(@) |-> init[i]]])
    /\ Note("ctor_list", c, NoHistory)
    /\ UNCHANGED ub

----------------------------------------------------------------------------
(* mutators *)

Resize(c, new_size, mv) ==
    /\ ~ub /\ obj[c].alive
    /\ mv \in MoveChoices(obj[c], ResizeVecLen(new_size))
    /\ obj' = ResizeMap(obj, c, new_size, mv)
    /\ ub' = ResizeUB(obj[c], new_size)
    /\ Note("resize", c, Resized(pushed[c]))

Clear(c) ==
    /\ ~ub /\ obj[c].alive
    /\ Set(c, ClearRec(obj[c], c))
    /\ Note("clear", c, NoHistory)
    /\ UNCHANGED ub

\* the length vec_ has after push_back (unchanged in the inline branch)
PushVecLen(s) ==
    IF s.size_ < ArrSize THEN Len(s.vec_)
    ELSE IF s.size_ = ArrSize THEN s.size_ + 1
    ELSE Len(s.vec_) + 1

\* push_back that, at size_ = ArrSize, stores val in the last old slot
PushBackMapLastSlot(O, c, val, mv) ==
    LET s == O[c] IN
    IF s.size_ < ArrSize
    THEN [O EXCEPT ![c] = [s EXCEPT !.arr_ = [@ EXCEPT ![s.size_ + 1] = val],
                                    !.size_ = s.size_ + 1]]
    ELSE IF s.size_ = ArrSize
    THEN LET O1 == ResizeMap(O, c, s.size_ + 1, mv)
         IN  Poke(O1, O1[c].data_, {s.size_}, val)
    ELSE LET O1 == Grown(O, c, mv)
         IN  [O1 EXCEPT ![c] = [O1[c] EXCEPT !.vec_ = Append(s.vec_, val),
                                             !.data_ = VecPtr(c),
                                             !.size_ = s.size_ + 1]]

PushBackMap(O, c, val, mv) ==
    LET s == O[c] IN
    IF s.size_ < ArrSize
    THEN [O EXCEPT ![c] = [s EXCEPT !.arr_ = [@ EXCEPT ![s.size_ + 1] = val],
                                    !.size_ = s.size_ + 1]]
    ELSE IF s.size_ = ArrSize
    THEN LET O1 == ResizeMap(O, c, s.size_ + 1, mv)
         IN  Poke(O1, O1[c].data_, {O1[c].size_}, val)
    ELSE LET O1 == Grown(O, c, mv)
         IN  [O1 EXCEPT ![c] = [O1[c] EXCEPT !.vec_ = Append(s.vec_, val),
                                             !.data_ = VecPtr(c),
                                             !.size_ = s.size_ + 1]]

PushBack(c, val, mv) ==
    /\ ~ub /\ obj[c].alive
    /\ obj[c].size_ < MaxSize
    /\ mv \in MoveChoices(obj[c], PushVecLen(obj[c]))
    /\ obj' = PushBackMap(obj, c, val, mv)
    /\ Note("push_back", c, IF pushed[c].ok
                            THEN [ok |-> TRUE, vals |-> Append(pushed[c].vals, val)]
                            ELSE NoHistory)
    /\ UNCHANGED ub

Assign(c, count, val, mv) ==
    /\ ~ub /\ obj[c].alive
    /\ mv \in MoveChoices(obj[c], ResizeVecLen(count))
    /\ obj' = FillIn(ResizeMap(obj, c, count, mv), c, val)
    /\ ub' = ResizeUB(obj[c], count)
    /\ Note("assign", c, NoHistory)

Fill(c, val) ==
    /\ ~ub /\ obj[c].alive
    /\ IF PokeOk(obj, obj[c].data_, 1..obj[c].size_)
       THEN obj' = FillIn(obj, c, val) /\ ub' = FALSE
       ELSE obj' = obj /\ ub' = TRUE
    /\ Note("fill", c, NoHistory)

\* operator[](i) = val, for an index below size()
Write(c, i, val) ==
    /\ ~ub /\ obj[c].alive
    /\ i \in 1..obj[c].size_
    /\ IF PokeOk(obj, obj[c].data_, {i})
       THEN obj' = Poke(obj, obj[c].data_, {i}, val) /\ ub' = FALSE
       ELSE obj' = obj /\ ub' = TRUE
    /\ Note("write", c, NoHistory)

----------------------------------------------------------------------------
(* element access *)

\* check_ind(i) calls Error: i >= size_ (here i is the 1-based index)
check_ind(s, i) == i > s.size_

check_empty(s) == s.size_ = 0

\* Error(msg) counts one report and does not return: the operation that called
\* it yields no element
Error(o) == [o EXCEPT !.errs = @ + 1, !.val = None]

\* the outcome of an access that returns data_[i-1]
Got(c, i, v) == [errs |-> 0, val |-> v, arg |-> i]

At(c, i) ==
    /\ ~ub /\ obj[c].alive
    /\ \E v \in Reads(c, i) :
          out' = IF check_ind(obj[c], i) THEN Error([NoOut EXCEPT !.arg = i])
                 ELSE Got(c, i, v)
    /\ UNCHANGED <<obj, ub>>
    /\ Track("at", c, pushed[c])

\* front(): CHECK_EMPTY is check_empty() in a DEBUG build and nothing otherwise
Front(c) ==
    /\ ~ub /\ obj[c].alive
    /\ \E v \in Reads(c, 1) :
          out' = IF DEBUG /\ check_empty(obj[c]) THEN Error([NoOut EXCEPT !.arg = 1])
                 ELSE Got(c, 1, v)
    /\ UNCHANGED <<obj, ub>>
    /\ Track("front", c, pushed[c])

\* back(): on an empty container without the check, data_[size_-1] reads before
\* the storage and may yield anything
Back(c) ==
    /\ ~ub /\ obj[c].alive
    /\ \E v \in (IF obj[c].size_ = 0 THEN Values ELSE Reads(c, obj[c].size_)) :
          out' = IF DEBUG /\ check_empty(obj[c])
                 THEN Error([NoOut EXCEPT !.arg = obj[c].size_])
                 ELSE Got(c, obj[c].size_, v)
    /\ UNCHANGED <<obj, ub>>
    /\ Track("back", c, pushed[c])

----------------------------------------------------------------------------
(* operations on two containers *)

\* pointers into a's block follow it to b, pointers into b's block stay
FollowOneWay(p, a, b) == IF p = VecPtr(a) THEN VecPtr(b) ELSE p

\* pointers after the blocks of a's and b's vectors changed hands
Follow(p, a, b) ==
    IF p = VecPtr(a) THEN VecPtr(b) ELSE IF p = VecPtr(b) THEN VecPtr(a) ELSE p

SwapMap(O, a, b) ==
    [x \in Cont |->
        IF x = a THEN [O[b] EXCEPT !.data_ = Follow(O[b].data_, a, b)]
        ELSE IF x = b THEN [O[a] EXCEPT !.data_ = Follow(O[a].data_, a, b)]
        ELSE [O[x] EXCEPT !.data_ = Follow(O[x].data_, a, b)]]

Swap(a, b) ==
    /\ ~ub /\ a # b /\ obj[a].alive /\ obj[b].alive
    /\ obj' = SwapMap(obj, a, b)
    /\ Note("swap", a, NoHistory)
    /\ UNCHANGED ub

\* the implicit copy constructor / copy assignment: memberwise in declaration
\* order, so data_ is copied as it is and vec_ is deep-copied after it
CopyMap(O, d, s, mv) ==
    LET O1 == [O EXCEPT ![d] = [O[d] EXCEPT !.alive = TRUE, !.data_ = O[s].data_,
                                            !.size_ = O[s].size_, !.arr_ = O[s].arr_]]
        O2 == Grown(O1, d, mv)
    IN  [O2 EXCEPT ![d].vec_ = O[s].vec_]

CopyCtor(d, s) ==
    /\ ~ub /\ d # s /\ ~obj[d].alive /\ obj[s].alive
    /\ obj' = CopyMap([obj EXCEPT ![d] = Blank(obj[d])], d, s, FALSE)
    /\ Note("copy_ctor", d, NoHistory)
    /\ UNCHANGED ub

CopyAssign(d, s, mv) ==
    /\ ~ub /\ d # s /\ obj[d].alive /\ obj[s].alive
    /\ mv \in MoveChoices(obj[d], Len(obj[s].vec_))
    /\ obj' = CopyMap(obj, d, s, mv)
    /\ Note("copy_assign", d, NoHistory)
    /\ UNCHANGED ub

\* the implicit move constructor / move assignment: data_, size_ and arr_ are
\* copied; d's vec_ frees its own block and takes over the block of s's vec_,
\* which is left empty
MoveMap(O, d, s) ==
    LET O1 == [O EXCEPT ![d] = [O[d] EXCEPT !.alive = TRUE, !.data_ = O[s].data_,
                                            !.size_ = O[s].size_, !.arr_ = O[s].arr_]]
        O2 == Invalidate(O1, d)
    IN  [x \in Cont |->
            LET t == [O2[x] EXCEPT !.data_ = IF @ = VecPtr(s) THEN VecPtr(d) ELSE @]
            IN  IF x = d THEN [t EXCEPT !.vec_ = O[s].vec_]
                ELSE IF x = s THEN [t EXCEPT !.vec_ = <<>>]
                ELSE t]

MoveCtor(d, s) ==
    /\ ~ub /\ d # s /\ ~obj[d].alive /\ obj[s].alive
    /\ obj' = MoveMap([obj EXCEPT ![d] = Blank(obj[d])], d, s)
    /\ Note("move_ctor", d, NoHistory)
    /\ UNCHANGED ub

MoveAssign(d, s) ==
    /\ ~ub /\ d # s /\ obj[d].alive /\ obj[s].alive
    /\ obj' = MoveMap(obj, d, s)
    /\ Note("move_assign", d, NoHistory)
    /\ UNCHANGED ub

----------------------------------------------------------------------------
(* specifications *)

Lists == UNION {[1..n -> Values] : n \in Sizes}

\* one container under its constructors and mutators
Next ==
    \/ CtorEmpty(1)
    \/ \E n \in Sizes : CtorSized(1, n)
    \/ \E n \in Sizes, v \in Values : CtorFill(1, n, v)
    \/ \E init \in Lists : CtorList(1, init)
    \/ \E n \in Sizes, mv \in BOOLEAN : Resize(1, n, mv)
    \/ Clear(1)
    \/ \E v \in Values, mv \in BOOLEAN : PushBack(1, v, mv)
    \/ \E n \in Sizes, v \in Values, mv \in BOOLEAN : Assign(1, n, v, mv)
    \/ \E v \in Values : Fill(1, v)
    \/ \E i \in 1..MaxSize, v \in Values : Write(1, i, v)
    \/ \E i \in 1..(MaxSize + 1) : At(1, i)
    \/ Front(1)
    \/ Back(1)

Spec == Init /\ [][Next]_vars

\* The two-container specification explores the product of two containers, so
\* it draws its inputs from smaller sets: the value pushed at a position of a
\* container is fixed (the two containers hold different, non-constant
\* sequences), and elements are overwritten at the front only.
PushVal(c) == (obj[c].size_ + c) % (MaxVal + 1)

NextPair ==
    \/ \E c \in Cont : CtorEmpty(c)
    \/ \E c \in Cont, n \in Sizes : CtorSized(c, n)
    \/ \E c \in Cont, n \in Sizes, mv \in BOOLEAN : Resize(c, n, mv)
    \/ \E c \in Cont : Clear(c)
    \/ \E c \in Cont, mv \in BOOLEAN : PushBack(c, PushVal(c), mv)
    \/ \E c \in Cont, v \in Values : Write(c, 1, v)
    \/ \E a \in Cont, b \in Cont : Swap(a, b)
    \/ \E a \in Cont, b \in Cont : CopyCtor(a, b)
    \/ \E a \in Cont, b \in Cont, mv \in BOOLEAN : CopyAssign(a, b, mv)
    \/ \E a \in Cont, b \in Cont : MoveCtor(a, b)
    \/ \E a \in Cont, b \in Cont : MoveAssign(a, b)

SpecPair == InitPair /\ [][NextPair]_vars

\* A container built by push_back, the container copy-constructed or
\* move-constructed from it, and assign and at on either of them.
NextShare ==
    \/ CtorEmpty(1)
    \/ \E c \in Cont, mv \in BOOLEAN : PushBack(c, PushVal(c), mv)
    \/ CopyCtor(2, 1)
    \/ MoveCtor(2, 1)
    \/ \E c \in Cont, n \in Sizes, v \in Values, mv \in BOOLEAN : Assign(c, n, v, mv)
    \/ \E c \in Cont, i \in 1..(MaxSize + 1) : At(c, i)

SpecShare == InitPair /\ [][NextShare]_vars

----------------------------------------------------------------------------
(* properties *)

OwnPtrs(c) == {ArrPtr(c), VecPtr(c)}

\* the elements container c shows in the object map O: what each index below
\* size() may read
View(O, c) == [i \in 1..O[c].size_ |-> ReadsIn(O, c, i)]

\* C1: in every state of a constructed container, data_ is the first slot of
\* its own arr_ iff size() <= ArrSize, and the first slot of its own vec_'s
\* block iff size() > ArrSize.
C1_RegimeInvariant ==
    obj[1].alive =>
        /\ (obj[1].data_ = ArrPtr(1)) <=> (obj[1].size_ <= ArrSize)
        /\ (obj[1].data_ = VecPtr(1)) <=> (obj[1].size_ > ArrSize)

\* C2: push_back(v) from any reachable state makes the size old_size + 1, index
\* old_size read v, and leaves what every index below old_size reads.
C2_PushBackAppends ==
    [][\A v \in Values, mv \in BOOLEAN :
          PushBack(1, v, mv) =>
              /\ obj'[1].size_ = obj[1].size_ + 1
              /\ ReadsIn(obj', 1, obj[1].size_ + 1) = {v}
              /\ \A i \in 1..obj[1].size_ : ReadsIn(obj', 1, i) = ReadsIn(obj, 1, i)]_vars

\* C3: resize(n) from any reachable state makes the size n and leaves what every
\* index below min(old_size, n) reads.
C3_ResizeKeepsPrefix ==
    [][\A n \in Sizes, mv \in BOOLEAN :
          Resize(1, n, mv) =>
              /\ obj'[1].size_ = n
              /\ \A i \in 1..n : i <= obj[1].size_ =>
                    ReadsIn(obj', 1, i) = ReadsIn(obj, 1, i)]_vars

\* C4: a.swap(b) gives each container the other's former size and elements, and
\* leaves each container's data_ in its own arr_ or vec_.
C4_SwapExchanges ==
    [][\A a \in Cont, b \in Cont :
          Swap(a, b) =>
              /\ View(obj', a) = View(obj, b)
              /\ View(obj', b) = View(obj, a)
              /\ obj'[a].data_ \in OwnPtrs(a)
              /\ obj'[b].data_ \in OwnPtrs(b)]_vars

\* C5: copy construction and copy assignment of d from s give d the size and
\* elements of s, read through a data_ in d's own arr_ or vec_.
C5_CopyIndependent ==
    [][\A d \in Cont, s \in Cont :
          (CopyCtor(d, s) \/ \E mv \in BOOLEAN : CopyAssign(d, s, mv)) =>
              /\ View(obj', d) = View(obj, s)
              /\ obj'[d].data_ \in OwnPtrs(d)]_vars

\* C6: move construction and move assignment of d from s give d the former
\* elements of s through a data_ into d's own storage, and leave s empty and
\* inline: size() = 0, vec_size() = 0, data_ at s's own arr_.
C6_MoveResetsSource ==
    [][\A d \in Cont, s \in Cont :
          (MoveCtor(d, s) \/ MoveAssign(d, s)) =>
              /\ View(obj', d) = View(obj, s)
              /\ obj'[d].data_ \in OwnPtrs(d)
              /\ obj'[s].size_ = 0
              /\ Len(obj'[s].vec_) = 0
              /\ obj'[s].data_ = ArrPtr(s)]_vars

\* C7: in every state of a constructed container, vec_size() = 0 when
\* size() <= ArrSize, and vec_size() = size() when size() > ArrSize.
C7_HeapLength ==
    obj[1].alive =>
        /\ obj[1].size_ <= ArrSize => Len(obj[1].vec_) = 0
        /\ obj[1].size_ > ArrSize => Len(obj[1].vec_) = obj[1].size_

\* C8: InfArray(N) has size() = N; for N <= ArrSize it is inline (vec_size() = 0,
\* data_ at arr_), for N > ArrSize vec_ has N elements and data_ is at them.
C8_SizedConstruction ==
    [][\A n \in Sizes :
          CtorSized(1, n) =>
              /\ obj'[1].size_ = n
              /\ n <= ArrSize => Len(obj'[1].vec_) = 0 /\ obj'[1].data_ = ArrPtr(1)
              /\ n > ArrSize => Len(obj'[1].vec_) = n /\ obj'[1].data_ = VecPtr(1)]_vars

\* C9: after an empty construction and push_back of v0..v(k-1), size() = k, the
\* indices 0..k-1 read v0..v(k-1), and vec_size() is k if k > ArrSize, else 0.
C9_PushRoundTrip ==
    \A c \in Cont :
        pushed[c].ok =>
            LET k == Len(pushed[c].vals) IN
            /\ obj[c].size_ = k
            /\ \A i \in 1..k : Reads(c, i) = {pushed[c].vals[i]}
            /\ Len(obj[c].vec_) = IF k > ArrSize THEN k ELSE 0

\* a container built by ArrSize + 1 pushes, with two different values among them
C9_Witness ==
    /\ pushed[1].ok
    /\ Len(pushed[1].vals) = ArrSize + 1
    /\ pushed[1].vals[1] # pushed[1].vals[ArrSize + 1]

\* C10: right after clear(), size() = 0, vec_size() = 0 and data_ is the first
\* slot of the container's own arr_.
C10_ClearResets ==
    last.op = "clear" =>
        /\ obj[last.c].size_ = 0
        /\ Len(obj[last.c].vec_) = 0
        /\ obj[last.c].data_ = ArrPtr(last.c)

\* clear() has acted on a container that was heap-backed
C10_Witness ==
    /\ last.op = "clear"
    /\ last.osize > ArrSize
    /\ obj[last.c].size_ = 0

\* C11: at(i) with i >= size() reports exactly one error and returns no element;
\* at(i) with i < size() reports none and returns the element data_ has at i,
\* inside live storage; in a DEBUG build front() and back() on an empty
\* container report an error and return no element.
C11_CheckedAccess ==
    LET s == obj[last.c] IN
    /\ last.op = "at" =>
          IF out.arg > s.size_
          THEN out.errs = 1 /\ out.val = None
          ELSE /\ out.errs = 0
               /\ out.arg <= Extent(obj, s.data_)
               /\ out.val = Cell(obj, s.data_, out.arg)
    /\ (DEBUG /\ last.op \in {"front", "back"} /\ s.size_ = 0) =>
          out.errs = 1 /\ out.val = None

\* C12: resize(n) with n <= ArrSize, called on a container built by an empty
\* construction and m > ArrSize calls push_back(v0..v(m-1)), makes size() = n,
\* vec_size() = 0, data_ the first slot of arr_, and the indices 0..n-1 read
\* v0..v(n-1).
C12_ShrinkBack ==
    [][(pushed[1].ok /\ Len(pushed[1].vals) > ArrSize) =>
          \A n \in 0..ArrSize, mv \in BOOLEAN :
              Resize(1, n, mv) =>
                  /\ obj'[1].size_ = n
                  /\ Len(obj'[1].vec_) = 0
                  /\ obj'[1].data_ = ArrPtr(1)
                  /\ \A i \in 1..n : ReadsIn(obj', 1, i) = {pushed[1].vals[i]}]_vars

\* resize(ArrSize) has acted on a container built by more than ArrSize pushes,
\* the first two of different values
C12_Witness ==
    /\ last.op = "resize"
    /\ Len(pushed[last.c].vals) > ArrSize
    /\ obj[last.c].size_ = ArrSize
    /\ pushed[last.c].vals[1] # pushed[last.c].vals[2]

\* C13: resize(k) called right after resize(k) (the state a resize leaves has
\* size() = k) changes nothing that can be observed: size() stays k, data_ and
\* vec_size() stay, every index below k reads what it read, and the call is
\* defined.
C13_ResizeIdempotent ==
    [][(last.op = "resize" /\ last.c = 1) =>
          LET k == obj[1].size_ IN
          \A mv \in BOOLEAN :
              Resize(1, k, mv) =>
                  /\ ~ub'
                  /\ obj'[1].size_ = k
                  /\ obj'[1].data_ = obj[1].data_
                  /\ Len(obj'[1].vec_) = Len(obj[1].vec_)
                  /\ \A i \in 1..k : ReadsIn(obj', 1, i) = ReadsIn(obj, 1, i)]_vars

\* resize(k), k > ArrSize, has been called twice in a row on a container that
\* holds a value other than T()
C13_Witness ==
    /\ last.op = "resize" /\ last.again
    /\ last.osize = obj[last.c].size_
    /\ obj[last.c].size_ > ArrSize
    /\ Reads(last.c, 1) = {1}

\* C14: InfArray(N, V) has size() = N, and at(i) for every i below N reports no
\* error and reads V, for N below, at and above ArrSize.
C14_FillConstruction ==
    [][\A n \in Sizes, v \in Values :
          CtorFill(1, n, v) =>
              /\ obj'[1].size_ = n
              /\ \A i \in 1..n :
                    /\ ~check_ind(obj'[1], i)
                    /\ ReadsIn(obj', 1, i) = {v}]_vars

\* InfArray(ArrSize, 1) has been constructed
C14_Witness ==
    /\ last.op = "ctor_fill"
    /\ obj[last.c].size_ = ArrSize
    /\ \A i \in 1..ArrSize : Reads(last.c, i) = {1}

\* C15: on one container, under its constructors, resize, push_back, assign,
\* fill and clear, no operation is undefined, and whatever size resize is called
\* with next, its migration copy copies no more elements than the destination
\* is declared to have (vec_.size(), ArrSize) and no more than the source holds.
C15_CopiesInBounds ==
    /\ ~ub
    /\ obj[1].alive =>
          \A n \in 0..(MaxSize + 1) :
              LET m == MigrationCopy(obj[1], n) IN
              m.copies => ~SafePtrViolation(m.count, m.dst) /\ m.count <= m.src

\* assign(ArrSize, v) has moved a heap-backed container back to arr_, copying
\* ArrSize elements
C15_Witness ==
    /\ last.op = "assign"
    /\ last.osize > ArrSize
    /\ obj[last.c].size_ = ArrSize
    /\ obj[last.c].data_ = ArrPtr(last.c)

\* C16: resize(n) with n <= ArrSize, called when size() <= ArrSize, changes
\* size_ only: data_, every slot of arr_ and vec_ stay as they were.
C16_InlineResizeFrame ==
    [][\A n \in 0..ArrSize, mv \in BOOLEAN :
          (Resize(1, n, mv) /\ obj[1].size_ <= ArrSize) =>
              /\ obj'[1].size_ = n
              /\ obj'[1].data_ = obj[1].data_
              /\ obj'[1].arr_ = obj[1].arr_
              /\ obj'[1].vec_ = obj[1].vec_]_vars

\* C17: from every state, clear() and resize(0) lead to the same state of the
\* containers (size_ 0, data_ at arr_, vec_ empty, the slots of arr_ as they
\* were), and resize(0) is defined.
C17_ClearIsResizeZero ==
    [][/\ Clear(1) => obj' = ResizeMap(obj, 1, 0, FALSE) /\ ~ResizeUB(obj[1], 0)
       /\ \A mv \in BOOLEAN :
             Resize(1, 0, mv) => obj' = [obj EXCEPT ![1] = ClearRec(obj[1], 1)] /\ ~ub'
      ]_vars

\* resize(0) has emptied a heap-backed container whose arr_ holds a value
\* other than T()
C17_Witness ==
    /\ last.op = "resize"
    /\ last.osize > ArrSize
    /\ obj[last.c].size_ = 0
    /\ obj[last.c].arr_[1] = 1

\* C18: assign(count, V) from any state makes size() = count and every index
\* below count read V; vec_size() = count with data_ at vec_ if count > ArrSize,
\* else vec_size() = 0 with data_ at arr_; the call is defined.
C18_AssignPost ==
    [][\A c \in Cont, count \in Sizes, v \in Values, mv \in BOOLEAN :
          Assign(c, count, v, mv) =>
              /\ ~ub'
              /\ obj'[c].size_ = count
              /\ \A i \in 1..count : ReadsIn(obj', c, i) = {v}
              /\ IF count > ArrSize
                 THEN Len(obj'[c].vec_) = count /\ obj'[c].data_ = VecPtr(c)
                 ELSE Len(obj'[c].vec_) = 0 /\ obj'[c].data_ = ArrPtr(c)]_vars

\* C19: a.swap(b) called again right after a.swap(b) restores both containers:
\* size_, data_, arr_ and vec_ of each are what they were before the first
\* call (swap applied to the state a swap step leaves gives the state the step
\* started from).
C19_SwapInvolution ==
    [][\A a \in Cont, b \in Cont : Swap(a, b) => SwapMap(obj', a, b) = obj]_vars

\* a.swap(b) has been called twice in a row on an inline-backed and a
\* heap-backed container
C19_Witness ==
    /\ last.op = "swap" /\ last.again
    /\ \E a \in Cont, b \in Cont :
          /\ obj[a].size_ \in 1..ArrSize /\ obj[a].data_ = ArrPtr(a)
          /\ obj[b].size_ > ArrSize /\ obj[b].data_ = VecPtr(b)

\* C20: a.swap(b), called when both containers have size() > ArrSize and data_
\* at their own vec_, gives each the other's former size and elements, leaves
\* data_ of each at its own vec_, and vec_size() = size() holds for both.
C20_HeapSwap ==
    [][\A a \in Cont, b \in Cont :
          (Swap(a, b) /\ \A c \in {a, b} : obj[c].size_ > ArrSize
                                           /\ obj[c].data_ = VecPtr(c)) =>
              /\ View(obj', a) = View(obj, b)
              /\ View(obj', b) = View(obj, a)
              /\ \A c \in {a, b} : /\ obj'[c].data_ = VecPtr(c)
                                    /\ Len(obj'[c].vec_) = obj'[c].size_]_vars

====
